---- MODULE Spec2Model ----
(***************************************************************************)
(* State-machine model of the SAM 2 segmentation service:                  *)
(*   python-backend/sam2_service/main.py          (FastAPI request layer)  *)
(*   python-backend/sam2_service/sam2_predictor.py (SAM2Predictor wrapper) *)
(*                                                                         *)
(* Threads of control:                                                     *)
(*   - the asyncio event loop, which runs startup_event, shutdown_event    *)
(*     and the three HTTP handlers; a coroutine runs atomically between    *)
(*     two suspending awaits;                                              *)
(*   - the default-executor thread that runs download_model._download;     *)
(*   - the ThreadPoolExecutor(max_workers=2) threads that run _segment.    *)
(* The model library (build_sam2, SAM2ImagePredictor,                      *)
(* SAM2AutomaticMaskGenerator), the image codec, the network and the file  *)
(* system are the environment: each call into them is one atomic step      *)
(* whose outcome is chosen nondeterministically where the code cannot      *)
(* decide it.                                                              *)
(***************************************************************************)
EXTENDS Integers, Sequences, FiniteSets, TLC

\* ---------------------------------------------------------------- bounds

\* Requests a client sends during one run of the process.
MaxRequests == 2

\* Longest list of boxes a request carries.
MaxBoxes == 2

\* Most masks the automatic mask generator emits for one image.
MaxAutoMasks == 1

\* Chunks the checkpoint is streamed in (response.iter_content).
NumChunks == 3

\* Process restarts (the checkpoint file outlives the process).
MaxRestarts == 3

\* ------------------------------------------------------ program constants

\* executor = ThreadPoolExecutor(max_workers=2)
MaxWorkers == 2

\* multimask_output=True: the predictor returns this many mask hypotheses.
NumMultimask == 3

\* ------------------------------------------------------------ value sets

Requests == 1..MaxRequests
Workers  == 1..MaxWorkers

\* File-system state of models_dir / filename: NoFile, or the number of
\* chunks written so far (NumChunks = the complete checkpoint).
NoFile == -1

\* An uploaded file or the body behind a URL: an encoded image of h x w
\* pixels in some PIL mode, bytes no codec can open, or (URL only) a fetch
\* that fails.
GoodFiles   == { [kind |-> "image", pil_mode |-> "RGB", h |-> 1, w |-> 2],
                 [kind |-> "image", pil_mode |-> "L",   h |-> 2, w |-> 1] }
CorruptFile == [kind |-> "corrupt", pil_mode |-> "", h |-> 0, w |-> 0]
Unreachable == [kind |-> "unreachable", pil_mode |-> "", h |-> 0, w |-> 0]
UploadFiles == GoodFiles \cup {CorruptFile}
UrlBodies   == GoodFiles \cup {CorruptFile, Unreachable}

\* An optional form field holding JSON: absent (None), or a JSON list.
FormNone    == [present |-> FALSE, json |-> <<>>]
FormList(l) == [present |-> TRUE, json |-> l]

\* A point or a box is identified by a number; the k boxes of a request are
\* pairwise different so that the order of the results can be observed.
BoxList(k)  == [i \in 1..k |-> 10 + i]
PointLists  == { <<>>, <<1>> }
BoxLists    == { BoxList(k) : k \in 0..MaxBoxes }

\* The (mode, points, boxes) combinations a client sends.
Prompts ==
    { [mode |-> "everything", points |-> FormNone, boxes |-> FormNone],
      [mode |-> "bogus",      points |-> FormNone, boxes |-> FormNone],
      [mode |-> "points",     points |-> FormNone, boxes |-> FormNone],
      [mode |-> "boxes",      points |-> FormNone, boxes |-> FormNone] }
    \cup { [mode |-> "points", points |-> FormList(l), boxes |-> FormNone]
             : l \in PointLists }
    \cup { [mode |-> "boxes", points |-> FormNone, boxes |-> FormList(l)]
             : l \in BoxLists }

\* A decoded image array is known by its shape (h, w, 3); NoImage = no array.
NoImage == <<>>

\* -------------------------------------------------------------- variables

VARIABLES
    predictor,          \* main.py global: "None" | "obj"
    self_model,         \* SAM2Predictor.model: "None" | "built" | "deleted"
    self_predictor,     \* SAM2Predictor.predictor: "None" | "built" | "deleted"
    image_set,          \* image held by the shared SAM2ImagePredictor
    startup_pc,         \* "idle" | "downloading" | "done" | "failed"
    dl,                 \* the download_model call of this run
    file,               \* checkpoint file: NoFile or chunks written
    work_queue,         \* executor: submitted tasks no worker has taken
    worker,             \* executor: worker -> request whose task it runs, or 0
    executor_shutdown,  \* executor: shutdown() has been called
    req,                \* request -> handler state and response
    task,               \* request -> state of its _segment call
    shutdown_pc,        \* "idle" | "draining" | "done"
    restarts            \* process restarts so far

vars == << predictor, self_model, self_predictor, image_set, startup_pc, dl,
           file, work_queue, worker, executor_shutdown, req, task,
           shutdown_pc, restarts >>

proc_vars == << predictor, self_model, self_predictor, image_set >>
dl_vars   == << dl, file >>
pool_vars == << work_queue, worker, executor_shutdown >>

\* ------------------------------------------------------- initial state

\* No download_model call yet.  existed / file_at_call record what the call
\* saw on entry, gets counts the requests.get calls it made.
DlIdle == [pc |-> "idle", existed |-> FALSE, file_at_call |-> NoFile, gets |-> 0]

\* The response body of a request that has not succeeded.
NoBody == [success |-> FALSE, mode |-> "", num_masks |-> 0, masks |-> <<>>,
           image_shape |-> <<>>]

\* A request slot no client has used yet.
ReqNone ==
    [pc |-> "none", file |-> CorruptFile, mode |-> "",
     points |-> FormNone, boxes |-> FormNone, image |-> NoImage,
     ready_at_entry |-> FALSE, read |-> FALSE, submitted |-> FALSE,
     status |-> 0, detail |-> "", body |-> NoBody]

\* No _segment call for this request.
TaskNone ==
    [pc |-> "none", k |-> 0, masks |-> <<>>, scores |-> <<>>,
     set_calls |-> 0, predict_calls |-> <<>>, generate_calls |-> 0,
     calls_not_ready |-> 0, err |-> ""]

\* Module import of main.py: predictor = None, a fresh executor, nothing
\* loaded.  The checkpoint file is whatever the file system holds: none, or
\* a checkpoint put there beforehand.
Init ==
    /\ predictor = "None"
    /\ self_model = "None"
    /\ self_predictor = "None"
    /\ image_set = NoImage
    /\ startup_pc = "idle"
    /\ dl = DlIdle
    /\ file \in {NoFile, NumChunks}
    /\ work_queue = <<>>
    /\ worker = [w \in Workers |-> 0]
    /\ executor_shutdown = FALSE
    /\ req = [r \in Requests |-> ReqNone]
    /\ task = [r \in Requests |-> TaskNone]
    /\ shutdown_pc = "idle"
    /\ restarts = 0

\* ------------------------------------------------ lifecycle of the wrapper

\* The state of the Predictor Wrapper's state machine.
PredState ==
    IF predictor = "None" THEN "Uninitialized"
    ELSE IF shutdown_pc # "idle" THEN "CleanedUp"
    ELSE IF self_predictor = "built" THEN "Ready"
    ELSE "Loading"

\* The event loop is free to run a coroutine: shutdown_event blocks it in
\* executor.shutdown(wait=True), and the process exits once it returned.
LoopFree == shutdown_pc = "idle"

\* ------------------------------------------------------- download_model

\* Mutant of Exists: the existence test never succeeds.
ExistsNever(f) == FALSE

\* model_path.exists()
Exists(f) == f # NoFile

\* build_sam2 + SAM2ImagePredictor: may raise; a truncated checkpoint cannot
\* be loaded.
BuildOutcomes(f) == IF f = NumChunks THEN {TRUE, FALSE} ELSE {FALSE}

\* startup_event up to its first suspension when the checkpoint file
\* exists: download_model returns the path at once, load_model builds.
StartupReuse ==
    /\ LoopFree
    /\ startup_pc = "idle"
    /\ Exists(file)
    /\ \E ok \in BuildOutcomes(file) :
         /\ predictor' = "obj"
         /\ self_model' = IF ok THEN "built" ELSE "None"
         /\ self_predictor' = IF ok THEN "built" ELSE "None"
         /\ startup_pc' = IF ok THEN "done" ELSE "failed"
    /\ dl' = [pc |-> "reused", existed |-> TRUE, file_at_call |-> file, gets |-> 0]
    /\ UNCHANGED << image_set, file, pool_vars, req, task, shutdown_pc, restarts >>

\* startup_event up to its first suspension when there is no file:
\* download_model hands _download to the default executor and awaits it.
StartupDownload ==
    /\ LoopFree
    /\ startup_pc = "idle"
    /\ ~Exists(file)
    /\ predictor' = "obj"
    /\ self_model' = "None"
    /\ self_predictor' = "None"
    /\ startup_pc' = "downloading"
    /\ dl' = [pc |-> "get", existed |-> FALSE, file_at_call |-> file, gets |-> 0]
    /\ UNCHANGED << image_set, file, pool_vars, req, task, shutdown_pc, restarts >>

\* _download: requests.get(url, stream=True); the connection may fail.
DownloadGet ==
    /\ dl.pc = "get"
    /\ \E ok \in BOOLEAN :
         dl' = [dl EXCEPT !.pc = IF ok THEN "status" ELSE "raised",
                          !.gets = @ + 1]
    /\ UNCHANGED << proc_vars, startup_pc, file, pool_vars, req, task,
                    shutdown_pc, restarts >>

\* _download: response.raise_for_status(); the server may answer an error.
DownloadStatus ==
    /\ dl.pc = "status"
    /\ \E ok \in BOOLEAN :
         dl' = [dl EXCEPT !.pc = IF ok THEN "open" ELSE "raised"]
    /\ UNCHANGED << proc_vars, startup_pc, file, pool_vars, req, task,
                    shutdown_pc, restarts >>

\* _download: open(model_path, 'wb') creates the file, empty.
DownloadOpen ==
    /\ dl.pc = "open"
    /\ dl' = [dl EXCEPT !.pc = "write"]
    /\ file' = 0
    /\ UNCHANGED << proc_vars, startup_pc, pool_vars, req, task, shutdown_pc,
                    restarts >>

\* _download: one round of the iter_content loop; the stream may break.
DownloadChunk ==
    /\ dl.pc = "write"
    /\ file < NumChunks
    /\ \E ok \in BOOLEAN :
         /\ dl' = [dl EXCEPT !.pc = IF ok THEN "write" ELSE "raised"]
         /\ file' = IF ok THEN file + 1 ELSE file
    /\ UNCHANGED << proc_vars, startup_pc, pool_vars, req, task, shutdown_pc, restarts >>

\* _download: the stream is exhausted, return model_path.
DownloadReturn ==
    /\ dl.pc = "write"
    /\ file = NumChunks
    /\ dl' = [dl EXCEPT !.pc = "returned"]
    /\ UNCHANGED << proc_vars, startup_pc, file, pool_vars, req, task,
                    shutdown_pc, restarts >>

\* load_model resumes after the awaited download: build, or re-raise.
LoadResume ==
    /\ LoopFree
    /\ startup_pc = "downloading"
    /\ dl.pc \in {"returned", "raised"}
    /\ \E ok \in (IF dl.pc = "returned" THEN BuildOutcomes(file) ELSE {FALSE}) :
         /\ self_model' = IF ok THEN "built" ELSE "None"
         /\ self_predictor' = IF ok THEN "built" ELSE "None"
         /\ startup_pc' = IF ok THEN "done" ELSE "failed"
    /\ UNCHANGED << predictor, image_set, dl_vars, pool_vars, req, task,
                    shutdown_pc, restarts >>

\* The process ends (startup raised, or shutdown finished) and is started
\* again; only the file system survives.
Restart ==
    /\ restarts < MaxRestarts
    /\ startup_pc = "failed" \/ shutdown_pc = "done"
    /\ predictor' = "None"
    /\ self_model' = "None"
    /\ self_predictor' = "None"
    /\ image_set' = NoImage
    /\ startup_pc' = "idle"
    /\ dl' = DlIdle
    /\ work_queue' = <<>>
    /\ worker' = [w \in Workers |-> 0]
    /\ executor_shutdown' = FALSE
    /\ req' = [r \in Requests |-> ReqNone]
    /\ task' = [r \in Requests |-> TaskNone]
    /\ shutdown_pc' = "idle"
    /\ restarts' = restarts + 1
    /\ UNCHANGED file

\* --------------------------------------------------------- request layer

\* Python truth value of a parsed optional list: None and [] are false.
Truthy(field) == field.present /\ Len(field.json) > 0

\* process_image_data: Image.open, convert to RGB, np.array; any failure
\* is raised as HTTPException(400, "Invalid image data").
process_image_data(bytes) ==
    IF bytes.kind = "image"
    THEN [raised |-> "", image |-> << bytes.h, bytes.w, 3 >>]
    ELSE [raised |-> "HTTPException400", image |-> NoImage]

\* The handlers' `except Exception as e: raise HTTPException(500, str(e))`.
\* HTTPException is itself an Exception, so it is caught here as well.
HandlerExcept(exc) == [status |-> 500, detail |-> exc]

\* encode_mask_to_base64: the PNG of an ndarray mask, known by its
\* dimensions; a mask that is a nested list (the result of .tolist()) has no
\* astype, the exception is swallowed and "" (here <<>>) is returned.
encode_mask_to_base64(mask) ==
    IF mask.kind = "ndarray" THEN mask.hw ELSE <<>>

\* The JSONResponse of a successful request.
SuccessBody(rq, tk) ==
    [success |-> TRUE,
     mode |-> rq.mode,
     num_masks |-> Len(tk.masks),
     masks |-> [i \in 1..Len(tk.masks) |->
                  [id |-> i - 1,
                   mask |-> encode_mask_to_base64(tk.masks[i]),
                   score |-> IF i <= Len(tk.scores) THEN tk.scores[i] ELSE 0]],
     image_shape |-> << rq.image[1], rq.image[2] >>]

\* A request ended by an exception the handler's except clause turned into
\* a response.
Failed(rq, exc) ==
    [rq EXCEPT !.pc = "done", !.status = HandlerExcept(exc).status,
               !.detail = HandlerExcept(exc).detail]

\* The handler body from reading the image to the submission of _segment:
\* file.read() / requests.get, process_image_data, json.loads,
\* run_segmentation up to loop.run_in_executor.
AfterRead(rq) ==
    LET got == [rq EXCEPT !.read = TRUE]
        dec == process_image_data(rq.file)
    IN  IF rq.file.kind = "unreachable" THEN Failed(got, "RequestException")
        ELSE IF dec.raised # "" THEN Failed(got, dec.raised)
        ELSE IF executor_shutdown THEN Failed(got, "RuntimeError")
        ELSE [got EXCEPT !.pc = "waiting", !.image = dec.image,
                         !.submitted = TRUE]

\* The first request slot not yet used.
Fresh(r) ==
    /\ req[r].pc = "none"
    /\ \A q \in Requests : q < r => req[q].pc # "none"

NewRequest(f, p) ==
    [ReqNone EXCEPT !.file = f, !.mode = p.mode,
                    !.points = p.points, !.boxes = p.boxes,
                    !.ready_at_entry = (predictor # "None"
                                        /\ self_predictor = "built")]

\* `if not predictor: raise HTTPException(503, ...)`
Rejected503(rq) ==
    [rq EXCEPT !.pc = "done", !.status = 503,
               !.detail = "SAM 2 model not loaded"]

\* The guard of both handlers: the global is None.
NotLoaded == predictor = "None"

Submit(r, rq) ==
    /\ req' = [req EXCEPT ![r] = rq]
    /\ IF rq.submitted
       THEN /\ work_queue' = Append(work_queue, r)
            /\ task' = [task EXCEPT ![r].pc = "queued"]
       ELSE UNCHANGED << work_queue, task >>

\* POST /segment up to `await file.read()`.
segment_image(r) ==
    /\ LoopFree
    /\ Fresh(r)
    /\ \E f \in UploadFiles, p \in Prompts :
         LET rq == NewRequest(f, p)
         IN  req' = [req EXCEPT ![r] = IF NotLoaded THEN Rejected503(rq)
                                       ELSE [rq EXCEPT !.pc = "reading"]]
    /\ UNCHANGED << proc_vars, startup_pc, dl_vars, pool_vars, task,
                    shutdown_pc, restarts >>

\* POST /segment after the upload has been read.
segment_image_read(r) ==
    /\ LoopFree
    /\ req[r].pc = "reading"
    /\ Submit(r, AfterRead(req[r]))
    /\ UNCHANGED << proc_vars, startup_pc, dl_vars, worker, executor_shutdown,
                    shutdown_pc, restarts >>

\* POST /segment-url: requests.get blocks the loop, so the handler runs
\* without suspension up to the submission.
segment_image_url(r) ==
    /\ LoopFree
    /\ Fresh(r)
    /\ \E f \in UrlBodies, p \in Prompts :
         LET rq == NewRequest(f, p)
         IN  IF NotLoaded
             THEN /\ req' = [req EXCEPT ![r] = Rejected503(rq)]
                  /\ UNCHANGED << work_queue, task >>
             ELSE Submit(r, AfterRead(rq))
    /\ UNCHANGED << proc_vars, startup_pc, dl_vars, worker, executor_shutdown,
                    shutdown_pc, restarts >>

\* The handler resumes when the future of _segment is done: the exception
\* is turned into a 500, the result into the JSON response.
Respond(r) ==
    /\ LoopFree
    /\ req[r].pc = "waiting"
    /\ task[r].pc \in {"ok", "err"}
    /\ req' = [req EXCEPT ![r] =
                 IF task[r].pc = "err" THEN Failed(req[r], task[r].err)
                 ELSE [req[r] EXCEPT !.pc = "done", !.status = 200,
                                     !.body = SuccessBody(req[r], task[r])]]
    /\ UNCHANGED << proc_vars, startup_pc, dl_vars, pool_vars, task,
                    shutdown_pc, restarts >>

\* GET /health
health_check ==
    [status |-> "healthy",
     model_loaded |-> predictor # "None",
     device |-> IF predictor # "None" THEN "device" ELSE "unknown"]

\* The handler reads the global and changes nothing.
HealthRequest ==
    /\ LoopFree
    /\ health_check.status = "healthy"
    /\ UNCHANGED vars

\* ------------------------------------------------------ the model library

\* SAM2ImagePredictor.predict on the image the predictor currently holds:
\* n masks of that image's height x width and n scores (n = NumMultimask
\* with multimask_output=True, 1 without).  A score is identified by the
\* prompt and the hypothesis it belongs to.
predict(img, prompt, multimask) ==
    LET n == IF multimask THEN NumMultimask ELSE 1
    IN  [masks  |-> [i \in 1..n |-> [hw |-> << img[1], img[2] >>,
                                     prompt |-> prompt, kind |-> "ndarray"]],
         scores |-> [i \in 1..n |-> 100 * i + prompt]]

\* ndarray.tolist() along the first axis: the same masks as nested lists.
tolist(masks) == [i \in 1..Len(masks) |-> [masks[i] EXCEPT !.kind = "list"]]

\* SAM2AutomaticMaskGenerator.generate: n records, one per object found,
\* each with an ndarray 'segmentation' of the image's height x width.
generate(img, n) ==
    [i \in 1..n |-> [segmentation |-> [hw |-> << img[1], img[2] >>,
                                       prompt |-> 0, kind |-> "ndarray"],
                     predicted_iou |-> 100 * i]]

\* ------------------------------------------------------------ _segment

\* The branch _segment takes.
Route(rq) ==
    IF rq.mode = "everything" THEN "everything"
    ELSE IF rq.mode = "points" /\ Truthy(rq.points) THEN "points"
    ELSE IF rq.mode = "boxes" /\ Truthy(rq.boxes) THEN "boxes"
    ELSE "ValueError"

\* What reading attribute self.predictor / self.model for use gives:
\* AttributeError once cleanup has deleted it.
AttrError(attr) == attr = "deleted"

\* `if not self.predictor: raise RuntimeError("Model not loaded")`
EntryCheck ==
    IF AttrError(self_predictor) THEN "AttributeError"
    ELSE IF self_predictor = "None" THEN "RuntimeError"
    ELSE ""

\* One more call into the model library, counted apart when the wrapper is
\* not Ready at that moment.
NotReadyCall == IF PredState = "Ready" THEN 0 ELSE 1

\* The task ends: its future is set and the worker is free again.
Finish(w, tk) ==
    /\ task' = [task EXCEPT ![worker[w]] = tk]
    /\ worker' = [worker EXCEPT ![w] = 0]

Raise(w, exc) == Finish(w, [task[worker[w]] EXCEPT !.pc = "err", !.err = exc])

\* A pool worker takes the oldest submitted task.
WorkerTake(w) ==
    /\ worker[w] = 0
    /\ work_queue # <<>>
    /\ worker' = [worker EXCEPT ![w] = Head(work_queue)]
    /\ work_queue' = Tail(work_queue)
    /\ task' = [task EXCEPT ![Head(work_queue)].pc = "entry"]
    /\ UNCHANGED << proc_vars, startup_pc, dl_vars, executor_shutdown, req,
                    shutdown_pc, restarts >>

\* _segment chooses the entry point, which checks self.predictor.
SegmentEntry(w) ==
    /\ worker[w] # 0
    /\ task[worker[w]].pc = "entry"
    /\ LET r == worker[w]
           route == Route(req[r])
       IN  IF route = "ValueError" THEN Raise(w, "ValueError")
           ELSE IF EntryCheck # "" THEN Raise(w, EntryCheck)
           ELSE /\ task' = [task EXCEPT ![r].pc =
                              IF route = "everything" THEN "new_generator"
                              ELSE "set_image"]
                /\ UNCHANGED worker
    /\ UNCHANGED << proc_vars, startup_pc, dl_vars, work_queue,
                    executor_shutdown, req, shutdown_pc, restarts >>

\* segment_everything: SAM2AutomaticMaskGenerator(model=self.model, ...);
\* the generator keeps its own reference to the model.
NewGenerator(w) ==
    /\ worker[w] # 0
    /\ task[worker[w]].pc = "new_generator"
    /\ IF AttrError(self_model) THEN Raise(w, "AttributeError")
       ELSE /\ task' = [task EXCEPT ![worker[w]].pc = "generate"]
            /\ UNCHANGED worker
    /\ UNCHANGED << proc_vars, startup_pc, dl_vars, work_queue,
                    executor_shutdown, req, shutdown_pc, restarts >>

\* segment_everything: mask_generator.generate(image) and the loop that
\* collects 'segmentation' and 'predicted_iou'.
segment_everything(w) ==
    /\ worker[w] # 0
    /\ task[worker[w]].pc = "generate"
    /\ \E n \in 0..MaxAutoMasks :
         LET r == worker[w]
             found == generate(req[r].image, n)
         IN  Finish(w, [task[r] EXCEPT
                 !.pc = "ok",
                 !.masks = [i \in 1..n |-> found[i].segmentation],
                 !.scores = [i \in 1..n |-> found[i].predicted_iou],
                 !.generate_calls = @ + 1,
                 !.calls_not_ready = @ + NotReadyCall])
    /\ UNCHANGED << proc_vars, startup_pc, dl_vars, work_queue,
                    executor_shutdown, req, shutdown_pc, restarts >>

\* segment_with_points / segment_with_boxes: self.predictor.set_image(image)
set_image(w) ==
    /\ worker[w] # 0
    /\ task[worker[w]].pc = "set_image"
    /\ IF AttrError(self_predictor)
       THEN /\ Raise(w, "AttributeError")
            /\ UNCHANGED image_set
       ELSE /\ image_set' = req[worker[w]].image
            /\ task' = [task EXCEPT ![worker[w]].pc = "predict",
                                    ![worker[w]].set_calls = @ + 1,
                                    ![worker[w]].calls_not_ready = @ + NotReadyCall]
            /\ UNCHANGED worker
    /\ UNCHANGED << predictor, self_model, self_predictor, startup_pc, dl_vars,
                    work_queue, executor_shutdown, req, shutdown_pc, restarts >>

\* segment_with_points: one predict call for all points, every hypothesis
\* returned.
PointsResult(tk, rq, out) ==
    [tk EXCEPT !.pc = "ok",
               !.masks = tolist(out.masks),
               !.scores = out.scores,
               !.predict_calls = Append(@, [prompt |-> rq.points.json[1],
                                            multimask |-> TRUE]),
               !.calls_not_ready = @ + NotReadyCall]

segment_with_points(w) ==
    /\ worker[w] # 0
    /\ task[worker[w]].pc = "predict"
    /\ Route(req[worker[w]]) = "points"
    /\ LET r == worker[w]
       IN  IF AttrError(self_predictor) THEN Raise(w, "AttributeError")
           ELSE Finish(w, PointsResult(task[r], req[r],
                           predict(image_set, req[r].points.json[1], TRUE)))
    /\ UNCHANGED << proc_vars, startup_pc, dl_vars, work_queue,
                    executor_shutdown, req, shutdown_pc, restarts >>

\* Mutant of BoxResult: the lists are assigned instead of extended.
BoxResultOverwrite(tk, box, out) ==
    [tk EXCEPT !.k = @ + 1,
               !.masks = tolist(out.masks),
               !.scores = out.scores,
               !.predict_calls = Append(@, [prompt |-> box,
                                            multimask |-> FALSE]),
               !.calls_not_ready = @ + NotReadyCall]

\* segment_with_boxes: the body of `for box in boxes` for the box at
\* position k + 1: predict, then extend all_masks and all_scores.
BoxResult(tk, box, out) ==
    [tk EXCEPT !.k = @ + 1,
               !.masks = @ \o tolist(out.masks),
               !.scores = @ \o out.scores,
               !.predict_calls = Append(@, [prompt |-> box,
                                            multimask |-> FALSE]),
               !.calls_not_ready = @ + NotReadyCall]

\* segment_with_boxes: the box the loop handles in its round k + 1.
NextBox(boxes, k) == boxes[k + 1]

segment_with_boxes(w) ==
    /\ worker[w] # 0
    /\ task[worker[w]].pc = "predict"
    /\ Route(req[worker[w]]) = "boxes"
    /\ LET r == worker[w]
           boxes == req[r].boxes.json
           box == NextBox(boxes, task[r].k)
           tk == BoxResult(task[r], box, predict(image_set, box, FALSE))
       IN  IF AttrError(self_predictor) THEN Raise(w, "AttributeError")
           ELSE IF tk.k = Len(boxes) THEN Finish(w, [tk EXCEPT !.pc = "ok"])
           ELSE /\ task' = [task EXCEPT ![r] = tk]
                /\ UNCHANGED worker
    /\ UNCHANGED << proc_vars, startup_pc, dl_vars, work_queue,
                    executor_shutdown, req, shutdown_pc, restarts >>

\* --------------------------------------------------------------- shutdown

\* SAM2Predictor.cleanup: `if self.x: del self.x` for model and predictor.
cleanup(attr) == IF attr = "built" THEN "deleted" ELSE attr

\* Mutant of ExecutorDrained: shutdown(wait=False) returns at once.
ExecutorNoWait == TRUE

\* executor.shutdown(wait=True) returns when no task is queued or running.
ExecutorDrained == work_queue = <<>> /\ \A w \in Workers : worker[w] = 0

\* shutdown_event up to the wait inside executor.shutdown: cleanup first,
\* then the executor stops taking submissions.  The lifespan protocol runs
\* it only after startup_event has returned.
shutdown_event ==
    /\ shutdown_pc = "idle"
    /\ startup_pc = "done"
    /\ self_model' = IF predictor # "None" THEN cleanup(self_model) ELSE self_model
    /\ self_predictor' = IF predictor # "None" THEN cleanup(self_predictor)
                         ELSE self_predictor
    /\ executor_shutdown' = TRUE
    /\ shutdown_pc' = "draining"
    /\ UNCHANGED << predictor, image_set, startup_pc, dl_vars, work_queue,
                    worker, req, task, restarts >>

\* executor.shutdown(wait=True) returns, and with it shutdown_event.
shutdown_return ==
    /\ shutdown_pc = "draining"
    /\ ExecutorDrained
    /\ shutdown_pc' = "done"
    /\ UNCHANGED << proc_vars, startup_pc, dl_vars, pool_vars, req, task, restarts >>

\* ---------------------------------------------------------- specification

Next ==
    \/ StartupReuse
    \/ StartupDownload
    \/ DownloadGet
    \/ DownloadStatus
    \/ DownloadOpen
    \/ DownloadChunk
    \/ DownloadReturn
    \/ LoadResume
    \/ \E r \in Requests : segment_image(r)
    \/ \E r \in Requests : segment_image_read(r)
    \/ \E r \in Requests : segment_image_url(r)
    \/ \E r \in Requests : Respond(r)
    \/ HealthRequest
    \/ \E w \in Workers : WorkerTake(w)
    \/ \E w \in Workers : SegmentEntry(w)
    \/ \E w \in Workers : NewGenerator(w)
    \/ \E w \in Workers : segment_everything(w)
    \/ \E w \in Workers : set_image(w)
    \/ \E w \in Workers : segment_with_points(w)
    \/ \E w \in Workers : segment_with_boxes(w)
    \/ shutdown_event
    \/ shutdown_return

\* One run of the process, from the import of main.py to the return of
\* shutdown_event.
Spec == Init /\ [][Next]_vars

\* The checkpoint file over successive runs of the process, with no client:
\* startup, download, shutdown and restart.
NextDownload ==
    \/ StartupReuse
    \/ StartupDownload
    \/ DownloadGet
    \/ DownloadStatus
    \/ DownloadOpen
    \/ DownloadChunk
    \/ DownloadReturn
    \/ LoadResume
    \/ HealthRequest
    \/ shutdown_event
    \/ shutdown_return
    \/ Restart

SpecDownload == Init /\ [][NextDownload]_vars

\* ------------------------------------------------------------ properties

\* The prompt of a request is unusable: unknown mode, or a mode whose
\* prompt list is missing or empty.
InvalidPrompt(rq) ==
    \/ rq.mode \notin {"everything", "points", "boxes"}
    \/ rq.mode = "points" /\ (~rq.points.present \/ rq.points.json = <<>>)
    \/ rq.mode = "boxes" /\ (~rq.boxes.present \/ rq.boxes.json = <<>>)

\* No inference method of the model library was called for the task.
NoInference(tk) ==
    tk.set_calls = 0 /\ tk.predict_calls = <<>> /\ tk.generate_calls = 0

\* A task that has finished, one way or the other.
TaskOver(tk) == tk.pc \in {"none", "ok", "err"}

\* C1: with the model loaded, a request whose image bytes cannot be decoded
\* ends with status 400, and nothing was submitted to the worker pool.
C1_DecodeFailureIs400 ==
    \A r \in Requests :
        ( /\ req[r].pc = "done"
          /\ req[r].ready_at_entry
          /\ req[r].read
          /\ req[r].file.kind = "corrupt" )
        => ( /\ req[r].status = 400
             /\ ~req[r].submitted
             /\ task[r] = TaskNone )

\* C2: a request with a decodable image and an unusable prompt ends with
\* status 400, and no inference method was called for it (stated for the
\* requests that arrive with the model loaded, where nothing else fails).
C2_InvalidPromptIs400 ==
    \A r \in Requests :
        ( /\ req[r].pc = "done"
          /\ req[r].ready_at_entry
          /\ req[r].image # NoImage
          /\ InvalidPrompt(req[r]) )
        => ( /\ req[r].status = 400
             /\ NoInference(task[r]) )

\* C3: a request that arrives while the model is not loaded into the
\* predictor is answered 503 at once: nothing is read or fetched and no
\* task is submitted.
C3_NotLoadedIs503 ==
    \A r \in Requests :
        ( req[r].pc # "none" /\ ~req[r].ready_at_entry )
        => ( /\ req[r].pc = "done"
             /\ req[r].status = 503
             /\ ~req[r].read
             /\ ~req[r].submitted )

\* C4: in every state, GET /health reports model_loaded = true exactly when
\* the model load has completed successfully.
C4_HealthReportsLoad ==
    health_check.model_loaded <=> (startup_pc = "done")

\* C5: every mask a task returns was computed from its own request's image:
\* it has that image's height and width.
C5_MaskFromOwnImage ==
    \A r \in Requests :
        task[r].pc = "ok" =>
            \A i \in 1..Len(task[r].masks) :
                task[r].masks[i].hw = << req[r].image[1], req[r].image[2] >>

\* C6: a boxes task with K >= 1 boxes that returns has set the image once,
\* made exactly K predict calls, one per box in input order and each with
\* multimask_output=False, and returns K masks and K scores that are those
\* calls' results in box order.
C6_BoxesConcatenation ==
    \A r \in Requests :
        ( task[r].pc = "ok" /\ req[r].mode = "boxes" ) =>
            LET boxes == req[r].boxes.json
                K == Len(boxes)
                tk == task[r]
            IN  /\ K >= 1
                /\ tk.set_calls = 1
                /\ tk.generate_calls = 0
                /\ Len(tk.predict_calls) = K
                /\ Len(tk.masks) = K
                /\ Len(tk.scores) = K
                /\ \A i \in 1..K :
                     /\ tk.predict_calls[i] = [prompt |-> boxes[i],
                                               multimask |-> FALSE]
                     /\ tk.masks[i].prompt = boxes[i]
                     /\ tk.scores[i] = 100 + boxes[i]

\* C6 witness: a boxes task with two boxes or more has returned.
C6_Witness ==
    \E r \in Requests :
        /\ task[r].pc = "ok"
        /\ req[r].mode = "boxes"
        /\ Len(req[r].boxes.json) >= 2
        /\ Len(task[r].masks) >= 2

\* C7: download_model sends a network request if and only if no file was
\* at the checkpoint path when it was called; when a file was there it
\* returns at once, sends nothing and leaves the file as it was.
C7_FetchIffNoFile ==
    /\ ( dl.pc # "idle" /\ dl.file_at_call # NoFile )
         => ( dl.pc = "reused" /\ dl.gets = 0 /\ file = dl.file_at_call )
    /\ ( dl.pc \notin {"idle", "get"} /\ dl.file_at_call = NoFile )
         => dl.gets = 1
    /\ dl.pc = "reused" => dl.file_at_call # NoFile

\* C7 witness: a later run of the process finds the checkpoint file, reuses
\* it without a download and loads the model.
C7_Witness ==
    /\ restarts >= 1
    /\ dl.pc = "reused"
    /\ dl.file_at_call # NoFile
    /\ startup_pc = "done"

\* C8: when shutdown_event has returned, no task is queued or running,
\* every submitted task has finished, and the predictor holds neither the
\* model nor the image predictor.
C8_ShutdownDrainsAndReleases ==
    shutdown_pc = "done" =>
        /\ work_queue = <<>>
        /\ \A w \in Workers : worker[w] = 0
        /\ \A r \in Requests : TaskOver(task[r])
        /\ \A r \in Requests : req[r].submitted => task[r].pc \in {"ok", "err"}
        /\ self_model # "built"
        /\ self_predictor # "built"

\* C8 witness: shutdown_event has returned after a task that was still in
\* flight when cleanup ran.
C8_Witness ==
    /\ shutdown_pc = "done"
    /\ self_model = "deleted"
    /\ \E r \in Requests :
         /\ req[r].submitted
         /\ task[r].pc = "err"
         /\ task[r].err = "AttributeError"

\* C9: a checkpoint file that exists while no download is writing it is
\* complete, and download_model never reuses a truncated file.
C9_ExistingFileIsComplete ==
    /\ ( Exists(file) /\ dl.pc # "write" ) => file = NumChunks
    /\ dl.pc = "reused" => dl.file_at_call = NumChunks

\* C10: the model library is called only while the predictor is Ready, and
\* an inference entry point that runs in another state fails with
\* RuntimeError "Model not loaded" (a task ends with no other error than
\* that or the ValueError of an unusable prompt).
C10_ModelCallsOnlyWhenReady ==
    \A r \in Requests :
        /\ task[r].calls_not_ready = 0
        /\ task[r].pc = "err" => task[r].err \in {"ValueError", "RuntimeError"}

====
